---------------------------- MODULE Spec2Model ----------------------------
(***************************************************************************)
(* A model of dumptool.py: the bulk metadata downloader.                   *)
(*                                                                         *)
(* Text is modelled at the level the program handles it: a line of a log   *)
(* file is the sequence of its whitespace-separated tokens, a token is a   *)
(* sequence of glyphs, and a glyph is a one-character string for the       *)
(* digits and "#", or a whole word (Word) where the program never looks    *)
(* inside it.  A log file is the sequence of its lines.                    *)
(***************************************************************************)
EXTENDS Integers, Sequences, FiniteSets, TLC

(* ------------------------------ bounds --------------------------------- *)
\* Ids 1..MaxId are the ids whose upstream answer varies; above, no id exists
\* and every id gets the same answer.
MaxId == 3
\* Runs of the program per behaviour.
MaxRuns == 2
\* Lines of errors.txt when a retry-mode run starts.
MaxErrLines == 2
\* --threads: workers of the pool.
Threads == 2
\* Probes followed per crawl: above, the probe loop is left to itself.
MaxProbes == 250

(* ------------------------- program constants --------------------------- *)
BLOCK_SIZE == 10000
retries == 3
backoff == 2
limit == 200
NoDownloads == 1000000

Ids == 1..MaxId

(* ------------------------------- text ---------------------------------- *)
DigitGlyph == <<"0", "1", "2", "3", "4", "5", "6", "7", "8", "9">>
Digits == {DigitGlyph[k] : k \in 1..10}
DigitVal(g) == (CHOOSE k \in 1..10 : DigitGlyph[k] = g) - 1

Pow10(k) == IF k = 0 THEN 1 ELSE
            IF k = 1 THEN 10 ELSE
            IF k = 2 THEN 100 ELSE
            IF k = 3 THEN 1000 ELSE
            IF k = 4 THEN 10000 ELSE
            IF k = 5 THEN 100000 ELSE
            IF k = 6 THEN 1000000 ELSE
            IF k = 7 THEN 10000000 ELSE 100000000

\* f"{n:08d}" for 0 <= n < 10^8
Pad8(n) == [k \in 1..8 |-> DigitGlyph[((n \div Pow10(8 - k)) % 10) + 1]]

NumDigits(n) == IF n < 10 THEN 1 ELSE
                IF n < 100 THEN 2 ELSE
                IF n < 1000 THEN 3 ELSE
                IF n < 10000 THEN 4 ELSE
                IF n < 100000 THEN 5 ELSE
                IF n < 1000000 THEN 6 ELSE
                IF n < 10000000 THEN 7 ELSE 8

\* f"{n}" for 0 <= n < 10^8
Str(n) == [k \in 1..NumDigits(n) |-> DigitGlyph[((n \div Pow10(NumDigits(n) - k)) % 10) + 1]]

\* str.isdigit() of a token
IsNumber(tok) == Len(tok) > 0 /\ \A k \in 1..Len(tok) : tok[k] \in Digits

\* int(tok) of a token of digits
RECURSIVE ParseInt(_)
ParseInt(tok) == IF Len(tok) = 0 THEN 0
                 ELSE 10 * ParseInt(SubSeq(tok, 1, Len(tok) - 1)) + DigitVal(tok[Len(tok)])

Word(w) == <<w>>
Hash == <<"#">>

(* ---------------------------- storage layout ---------------------------- *)
get_folder_name(model_id) == Pad8((model_id \div BLOCK_SIZE) * BLOCK_SIZE)

\* os.path.join(folder, f"{model_id_str}.json"), below output_dir
StoragePath(model_id) == <<get_folder_name(model_id), Pad8(model_id)>>

\* a file below output_dir whose name does not start with 8 digits
StrayPath == <<get_folder_name(0), Word("notes")>>

Paths == {StoragePath(i) : i \in Ids} \cup {StrayPath}

(* -------------------------------- state --------------------------------- *)
VARIABLES
    upstream,          \* the remote catalog: id -> the answer every request for it gets
    rest,              \* the answer the catalog gives for every id above MaxId
    call,              \* one call of fetch_civitai_json, followed request by request
    outdir,            \* whether the output directory exists
    files,             \* path -> "absent" | "valid" | "invalid" (does not parse as JSON)
    logs,              \* log file name -> its lines
    present,           \* the log files that exist
    phase,             \* main(): "idle" (not running) | "crawl" (probe loop) | "pool"
    args,              \* the command line of the current (or last) run
    force,             \* download_models_threaded's force
    tasks,             \* the futures, in submission order
    downloaded_set,    \* download_models_threaded's shared in-memory set
    highest,           \* crawl: the id probed last
    consecutive_404s,  \* crawl: the loop's counter
    model_ids,         \* crawl: the ids discovered
    stop_requested,    \* the stop signal has been raised (nothing in dumptool.py reads it)
    runs,              \* history: runs started
    completed,         \* history: the last run ended by itself (no crash, no abort)
    last,              \* history: the command line of the last completed run
    trail,             \* history: how many of the latest probes in a row returned "404"
    rebuilt            \* history: the start-up of the last run rewrote downloaded.txt

vars == <<upstream, rest, call, outdir, files, logs, present, phase, args, force, tasks,
          downloaded_set, highest, consecutive_404s, model_ids, stop_requested,
          runs, completed, last, trail, rebuilt>>

disk == <<outdir, files, logs, present>>
\* everything but the fetch call that is followed on its own
program == <<upstream, rest, outdir, files, logs, present, phase, args, force, tasks,
             downloaded_set, highest, consecutive_404s, model_ids, stop_requested,
             runs, completed, last, trail, rebuilt>>
crawlvars == <<highest, consecutive_404s, model_ids, trail>>

DOWNLOADED == "downloaded.txt"
NOTFOUND == "notfound.txt"
ERRORS == "errors.txt"
CRAWLED == "crawled.txt"
LogNames == {DOWNLOADED, NOTFOUND, ERRORS, CRAWLED}

(* ------------------------------- ledger -------------------------------- *)
Lines(log) == {log[k] : k \in DOMAIN log}

\* load_log(path) over the files (L, P)
LoadLog(L, P, path) == IF path \in P THEN Lines(L[path]) ELSE {}
load_log(path) == LoadLog(logs, present, path)

\* append_log(path, line): the lines of `path` after the append
append_log(L, path, line) == [L EXCEPT ![path] = Append(@, line)]

\* is_valid_json_file(filepath)
is_valid_json_file(F, path) == F[path] = "valid"

\* scan_existing_json without the call of is_valid_json_file (line 61)
scan_existing_json_Unparsed(F) ==
    {p[2] : p \in {q \in DOMAIN F : IsNumber(q[2]) /\ F[q] # "absent"}}

\* scan_existing_json(output_dir): file[:8] of every file named by 8 digits
\* that parses
scan_existing_json(F) ==
    {p[2] : p \in {q \in DOMAIN F : IsNumber(q[2]) /\ is_valid_json_file(F, q)}}

\* sorted(valid_ids), one id per line
RECURSIVE SortedLines(_)
SortedLines(S) == IF S = {} THEN <<>>
                  ELSE LET m == CHOOSE x \in S : \A y \in S : ParseInt(x) <= ParseInt(y)
                       IN  <<<<m>>>> \o SortedLines(S \ {m})

\* rebuild_downloaded_log(output_dir, downloaded_log_path): the new downloaded.txt
rebuild_downloaded_log(F) == SortedLines(scan_existing_json(F))

(* -------------------------------- fetch -------------------------------- *)
Answers == {"doc", "nomodel", "404", "429", "timeout", "5xx"}

\* fetch_civitai_json from attempt `attempt` on, resps[k] answering the k-th request
RECURSIVE FetchFrom(_, _)
FetchFrom(resps, attempt) ==
    IF ~(attempt < retries) THEN "timeout"
    ELSE LET r == resps[attempt + 1] IN
         CASE r = "404" -> "404"
           [] r = "429" -> "429"
           [] r = "nomodel" -> "404"
           [] r = "doc" -> "data"
           [] r = "timeout" -> FetchFrom(resps, attempt + 1)
           [] OTHER -> "ERR"

fetch_civitai_json(resps) == FetchFrom(resps, 0)

\* One call followed request by request: the answers received, the loop's
\* attempt, the delays slept, the value returned ("none" while it runs).
NoCall == [id |-> 0, answers |-> <<>>, attempt |-> 0, slept |-> <<>>, result |-> "none"]

\* line 97 with backoff * attempt for backoff ** attempt
Delay_Linear(attempt) == backoff * attempt

\* line 97: backoff ** attempt
Delay(attempt) == backoff ^ attempt

\* what the catalog answers for model_id
Answer(model_id) == IF model_id \in Ids THEN upstream[model_id] ELSE rest

Fetch(model_id) == fetch_civitai_json([a \in 1..retries |-> Answer(model_id)])

\* lines 147 and 150 with the result alone after the "#"
ErrorLine_Bare(model_id, result) == <<Pad8(model_id), Hash, Word(result)>>

\* the errors.txt line download_model writes for a result that is a string
ErrorLine(model_id, result) ==
    <<Pad8(model_id), Hash>> \o
    (CASE result = "429" -> <<<<"4", "2", "9">>, Word("Too"), Word("Many"), Word("Requests")>>
       [] result = "timeout" -> <<Word("timeout")>>
       [] OTHER -> <<Word("ERR"), <<"5", "0", "0">>, Word("Server"), Word("Error")>>)

\* line 79: fetch_civitai_json(model_id) is called
FetchCall(model_id) ==
    /\ call = NoCall
    /\ call' = [NoCall EXCEPT !.id = model_id]
    /\ UNCHANGED program

\* lines 81-100: one turn of the loop; the request is answered by the catalog
\* or times out
FetchRequest ==
    /\ call.id # 0
    /\ call.result = "none"
    /\ call.attempt < retries
    /\ \E r \in {Answer(call.id), "timeout"} :
          call' = IF r = "timeout"
                  THEN [call EXCEPT !.answers = Append(@, r),
                                    !.attempt = @ + 1,
                                    !.slept = Append(@, Delay(call.attempt + 1))]
                  ELSE [call EXCEPT !.answers = Append(@, r),
                                    !.result = fetch_civitai_json([a \in 1..retries |-> r])]
    /\ UNCHANGED program

\* lines 81 and 100: the loop ends, "timeout" is returned
FetchExhausted ==
    /\ call.id # 0
    /\ call.result = "none"
    /\ ~(call.attempt < retries)
    /\ call' = [call EXCEPT !.result = "timeout"]
    /\ UNCHANGED program

(* ------------------------------- planner ------------------------------- *)
\* list(range(a, b + 1))
RangeSeq(a, b) == [k \in 1..(b - a + 1) |-> a + k - 1]

\* '# 404' in line: the line is its tokens joined by single blanks
HasTag404(line) ==
    \E k \in 1..(Len(line) - 1) :
        /\ Len(line[k]) > 0 /\ line[k][Len(line[k])] = "#"
        /\ Len(line[k + 1]) >= 3 /\ SubSeq(line[k + 1], 1, 3) = <<"4", "0", "4">>

\* int(line.strip().split()[0]) does not raise
Parses(line) == Len(line) > 0 /\ IsNumber(line[1])

\* Retryable without line 181
Retryable_Keeps404(line, dset) ==
    /\ Parses(line)
    /\ <<Pad8(ParseInt(line[1]))>> \notin dset

\* retry_failed_models: whether a line of errors.txt adds its id to to_retry
Retryable(line, dset) ==
    /\ ~HasTag404(line)
    /\ Parses(line)
    /\ <<Pad8(ParseInt(line[1]))>> \notin dset

\* retry_failed_models: to_retry
to_retry(L, P) ==
    IF ERRORS \in P
    THEN LET dset == LoadLog(L, P, DOWNLOADED)
             kept == SelectSeq(L[ERRORS], LAMBDA line : Retryable(line, dset))
         IN  [k \in 1..Len(kept) |-> ParseInt(kept[k][1])]
    ELSE <<>>

\* range_ids with range(start, end) for range(start, end + 1)
range_ids_ExcludesEnd(L, P, start, end) ==
    LET dset == LoadLog(L, P, DOWNLOADED)
    IN  SelectSeq(RangeSeq(start, end - 1), LAMBDA i : <<Pad8(i)>> \notin dset)

\* main, range mode: the ids of [start, end] not in downloaded.txt
range_ids(L, P, start, end) ==
    LET dset == LoadLog(L, P, DOWNLOADED)
    IN  SelectSeq(RangeSeq(start, end), LAMBDA i : <<Pad8(i)>> \notin dset)

\* main, recheck mode: [int(line.strip()) for line in open(crawl_log)]
crawled_ids(L) == [k \in 1..Len(L[CRAWLED]) |-> ParseInt(L[CRAWLED][k][1])]

\* main, crawl mode: where the probe loop starts
crawl_start(dset) ==
    IF dset # {}
    THEN CHOOSE m \in {ParseInt(l[1]) : l \in dset} :
             \A l \in dset : ParseInt(l[1]) <= m
    ELSE NoDownloads

(* ------------------------------ main() --------------------------------- *)
NoArgs == [retry |-> FALSE, start |-> 0, end |-> 0, recheck |-> FALSE, crawl |-> FALSE]

\* start and end are 0 when not given: argparse's None and 0 are both falsy
ArgSpace == [retry : BOOLEAN, start : 0..MaxId, end : 0..MaxId,
             recheck : BOOLEAN, crawl : BOOLEAN]

\* the if/elif chain of main
Mode(a) == CASE a.retry -> "retry"
             [] ~a.retry /\ a.start # 0 /\ a.end # 0 -> "range"
             [] ~a.retry /\ ~(a.start # 0 /\ a.end # 0) /\ a.recheck -> "recheck"
             [] ~a.retry /\ ~(a.start # 0 /\ a.end # 0) /\ ~a.recheck /\ a.crawl -> "crawl"
             [] OTHER -> "usage"

\* main, lines 208-211: downloaded.txt is missing or empty
NeedsRebuild == DOWNLOADED \notin present \/ logs[DOWNLOADED] = <<>>

LogsAfterRebuild == IF NeedsRebuild
                    THEN [logs EXCEPT ![DOWNLOADED] = rebuild_downloaded_log(files)]
                    ELSE logs
PresentAfterRebuild == IF NeedsRebuild THEN present \cup {DOWNLOADED} ELSE present

\* io: where the task is in append_log: "none" | "locked" | "open"
NewTask(model_id) ==
    [id |-> model_id, pc |-> "pending", result |-> "none", appends |-> 0, io |-> "none"]

\* the candidate ids main hands to download_models_threaded, per mode
Candidates(a, L, P) ==
    CASE Mode(a) = "retry" -> to_retry(L, P)
      [] Mode(a) = "range" -> range_ids(L, P, a.start, a.end)
      [] Mode(a) = "recheck" -> IF CRAWLED \in P THEN crawled_ids(L) ELSE <<>>
      [] OTHER -> <<>>

\* whether main calls download_models_threaded at once in this mode
CallsPool(a, L, P) ==
    CASE Mode(a) = "retry" -> to_retry(L, P) # <<>>
      [] Mode(a) = "range" -> TRUE
      [] Mode(a) = "recheck" -> CRAWLED \in P
      [] OTHER -> FALSE

\* download_models_threaded, lines 160-169: load the set, submit every id
Submit(ids, L, P) ==
    /\ downloaded_set' = LoadLog(L, P, DOWNLOADED)
    /\ tasks' = [k \in 1..Len(ids) |-> NewTask(ids[k])]
    /\ phase' = "pool"

\* One invocation of the program up to the dispatch of its tasks (or to the
\* start of the probe loop).  With no output directory the rebuild's open()
\* raises and the run ends there.
StartRun(a) ==
    /\ phase = "idle"
    /\ runs < MaxRuns
    /\ runs' = runs + 1
    /\ args' = a
    /\ completed' = FALSE
    /\ stop_requested' = FALSE
    /\ UNCHANGED <<upstream, rest, call, files, last>>
    /\ rebuilt' = (NeedsRebuild /\ outdir)
    /\ IF NeedsRebuild /\ ~outdir
       THEN UNCHANGED <<outdir, logs, present, phase, force, tasks, downloaded_set,
                        crawlvars>>
       ELSE LET L == LogsAfterRebuild
                P == PresentAfterRebuild
            IN  /\ logs' = L
                /\ present' = P
                /\ outdir' = (outdir \/ CallsPool(a, L, P))
                /\ force' = (Mode(a) \in {"retry", "recheck"})
                /\ IF Mode(a) = "crawl"
                   THEN /\ phase' = "crawl"
                        /\ highest' = crawl_start(LoadLog(L, P, DOWNLOADED))
                        /\ consecutive_404s' = 0
                        /\ model_ids' = <<>>
                        /\ trail' = 0
                        /\ UNCHANGED <<tasks, downloaded_set>>
                   ELSE /\ IF CallsPool(a, L, P)
                           THEN Submit(Candidates(a, L, P), L, P)
                           ELSE /\ phase' = "pool"
                                /\ tasks' = <<>>
                                /\ UNCHANGED downloaded_set
                        /\ UNCHANGED crawlvars

(* --------------------------- download_model ---------------------------- *)
Active == {"inflight", "fetched", "open", "written"}
Terminal == {"skipped", "logged404", "loggederr", "persisted", "raised"}

Running == {k \in DOMAIN tasks : tasks[k].pc \in Active}

\* line 137: the task returns without a fetch
SkipCondition(model_id) ==
    /\ ~force
    /\ files[StoragePath(model_id)] # "absent"
    /\ is_valid_json_file(files, StoragePath(model_id))
    /\ <<Pad8(model_id)>> \in downloaded_set

\* A worker takes the oldest queued task: lines 133-141, up to the request.
Dispatch(k) ==
    /\ phase = "pool"
    /\ k \in DOMAIN tasks
    /\ tasks[k].pc = "pending"
    /\ \A j \in 1..(k - 1) : tasks[j].pc # "pending"
    /\ Cardinality(Running) < Threads
    /\ tasks' = [tasks EXCEPT ![k].pc =
                    IF SkipCondition(tasks[k].id) THEN "skipped" ELSE "inflight"]
    /\ UNCHANGED <<upstream, rest, call, rebuilt,
                   disk, phase, args, force, downloaded_set, crawlvars,
                   stop_requested, runs, completed, last>>

\* line 141: fetch_civitai_json returns
FetchReturns(k) ==
    /\ phase = "pool"
    /\ k \in DOMAIN tasks
    /\ tasks[k].pc = "inflight"
    /\ tasks' = [tasks EXCEPT ![k].pc = "fetched", ![k].result = Fetch(tasks[k].id)]
    /\ UNCHANGED <<upstream, rest, call, rebuilt,
                   disk, phase, args, force, downloaded_set, crawlvars,
                   stop_requested, runs, completed, last>>

\* lines 142-144
LogNotFound(k) ==
    /\ phase = "pool"
    /\ k \in DOMAIN tasks
    /\ tasks[k].pc = "fetched"
    /\ tasks[k].result = "404"
    /\ logs' = append_log(logs, NOTFOUND, <<Pad8(tasks[k].id)>>)
    /\ present' = present \cup {NOTFOUND}
    /\ tasks' = [tasks EXCEPT ![k].pc = "logged404", ![k].appends = @ + 1,
                             ![k].io = "none"]
    /\ UNCHANGED <<upstream, rest, call, rebuilt,
                   outdir, files, phase, args, force, downloaded_set,
                   crawlvars, stop_requested, runs, completed, last>>

\* lines 145-150: "429", and any other result that is a string
LogError(k) ==
    /\ phase = "pool"
    /\ k \in DOMAIN tasks
    /\ tasks[k].pc = "fetched"
    /\ tasks[k].result \in {"429", "timeout", "ERR"}
    /\ logs' = append_log(logs, ERRORS, ErrorLine(tasks[k].id, tasks[k].result))
    /\ present' = present \cup {ERRORS}
    /\ tasks' = [tasks EXCEPT ![k].pc = "loggederr", ![k].appends = @ + 1,
                             ![k].io = "none"]
    /\ UNCHANGED <<upstream, rest, call, rebuilt,
                   outdir, files, phase, args, force, downloaded_set,
                   crawlvars, stop_requested, runs, completed, last>>

\* lines 152-153: makedirs, then open(filepath, 'w') truncates the file in place
OpenFile(k) ==
    /\ phase = "pool"
    /\ k \in DOMAIN tasks
    /\ tasks[k].pc = "fetched"
    /\ tasks[k].result = "data"
    /\ files' = [files EXCEPT ![StoragePath(tasks[k].id)] = "invalid"]
    /\ tasks' = [tasks EXCEPT ![k].pc = "open"]
    /\ UNCHANGED <<upstream, rest, call, rebuilt,
                   outdir, logs, present, phase, args, force,
                   downloaded_set, crawlvars, stop_requested, runs, completed, last>>

\* line 154 and the end of the with block: the document is written and closed
Dump(k) ==
    /\ phase = "pool"
    /\ k \in DOMAIN tasks
    /\ tasks[k].pc = "open"
    /\ files' = [files EXCEPT ![StoragePath(tasks[k].id)] = "valid"]
    /\ tasks' = [tasks EXCEPT ![k].pc = "written"]
    /\ UNCHANGED <<upstream, rest, call, rebuilt,
                   outdir, logs, present, phase, args, force,
                   downloaded_set, crawlvars, stop_requested, runs, completed, last>>

\* lines 155-157: the append, the display (which catches its own errors), the add
LogDownloaded(k) ==
    /\ phase = "pool"
    /\ k \in DOMAIN tasks
    /\ tasks[k].pc = "written"
    /\ logs' = append_log(logs, DOWNLOADED, <<Pad8(tasks[k].id)>>)
    /\ present' = present \cup {DOWNLOADED}
    /\ downloaded_set' = downloaded_set \cup {<<Pad8(tasks[k].id)>>}
    /\ tasks' = [tasks EXCEPT ![k].pc = "persisted", ![k].appends = @ + 1,
                             ![k].io = "none"]
    /\ UNCHANGED <<upstream, rest, call, rebuilt,
                   outdir, files, phase, args, force, crawlvars,
                   stop_requested, runs, completed, last>>

\* lines 168-171 and the return of main: the with block ends when every
\* future has ended
FinishRun ==
    /\ phase = "pool"
    /\ \A k \in DOMAIN tasks : tasks[k].pc \in Terminal
    /\ phase' = "idle"
    /\ tasks' = <<>>
    /\ completed' = TRUE
    /\ last' = args
    /\ UNCHANGED <<upstream, rest, call, rebuilt,
                   disk, args, force, downloaded_set, crawlvars,
                   stop_requested, runs>>

(* append_log step by step: the lock is taken, the file opened, and the     *)
(* append actions above are its last step (write, close, release).         *)

\* the log file the task's append_log call names (lines 144, 147, 150, 155)
LedgerOf(k) == CASE tasks[k].result = "404" -> NOTFOUND
                 [] tasks[k].result = "data" -> DOWNLOADED
                 [] OTHER -> ERRORS

\* the task is at its append_log call
AtAppend(k) ==
    \/ tasks[k].pc = "fetched" /\ tasks[k].result # "data"
    \/ tasks[k].pc = "written"

\* line 44 with no lock at all
LockFree_Ignored == TRUE

\* line 44: LOCK is held by no thread
LockFree == \A j \in DOMAIN tasks : tasks[j].io = "none"

\* line 44: with LOCK
LockAcquire(k) ==
    /\ phase = "pool"
    /\ k \in DOMAIN tasks
    /\ AtAppend(k)
    /\ tasks[k].io = "none"
    /\ LockFree
    /\ tasks' = [tasks EXCEPT ![k].io = "locked"]
    /\ UNCHANGED <<upstream, rest, call, rebuilt,
                   disk, phase, args, force, downloaded_set,
                   crawlvars, stop_requested, runs, completed, last>>

\* line 45: open(path, 'a')
LogOpen(k) ==
    /\ phase = "pool"
    /\ k \in DOMAIN tasks
    /\ tasks[k].io = "locked"
    /\ tasks' = [tasks EXCEPT ![k].io = "open"]
    /\ UNCHANGED <<upstream, rest, call, rebuilt,
                   disk, phase, args, force, downloaded_set,
                   crawlvars, stop_requested, runs, completed, last>>

\* line 46 and the ends of the two with blocks
LockedAppend(k) ==
    /\ k \in DOMAIN tasks
    /\ tasks[k].io = "open"
    /\ (LogNotFound(k) \/ LogError(k) \/ LogDownloaded(k))

(* ------------------------------ crawl mode ----------------------------- *)
\* line 233, with <= for <
LoopContinues_Inclusive == consecutive_404s <= limit

\* line 233: while consecutive_404s < limit
LoopContinues == consecutive_404s < limit

\* lines 233-245: one turn of the probe loop
CrawlProbe ==
    /\ phase = "crawl"
    /\ LoopContinues
    /\ highest < crawl_start(load_log(DOWNLOADED)) + MaxProbes
    /\ highest' = highest + 1
    /\ LET status == Fetch(highest + 1) IN
         /\ consecutive_404s' = IF status = "404" THEN consecutive_404s + 1
                                ELSE IF status = "data" THEN 0
                                ELSE consecutive_404s
         /\ model_ids' = IF status = "data" THEN Append(model_ids, highest + 1)
                         ELSE model_ids
         /\ logs' = IF status = "data"
                    THEN append_log(logs, CRAWLED, <<Str(highest + 1)>>)
                    ELSE logs
         /\ present' = IF status = "data" THEN present \cup {CRAWLED} ELSE present
         /\ trail' = IF status = "404" THEN trail + 1 ELSE 0
    /\ UNCHANGED <<upstream, rest, call, rebuilt,
                   outdir, files, phase, args, force, tasks,
                   downloaded_set, stop_requested, runs, completed, last>>

\* lines 246-247: the loop has ended, the discovered ids go to the pool
CrawlDownload ==
    /\ phase = "crawl"
    /\ ~LoopContinues
    /\ Submit(model_ids, logs, present)
    /\ UNCHANGED <<upstream, rest, call, rebuilt,
                   disk, args, force, crawlvars, stop_requested, runs,
                   completed, last>>

(* ----------------------------- environment ---------------------------- *)
\* line 154 raises (the disk is full, say): the exception ends download_model,
\* the future keeps it and nothing reads it (lines 170-171)
WriteFails(k) ==
    /\ phase = "pool"
    /\ k \in DOMAIN tasks
    /\ tasks[k].pc = "open"
    /\ tasks' = [tasks EXCEPT ![k].pc = "raised"]
    /\ UNCHANGED <<upstream, rest, call, rebuilt,
                   disk, phase, args, force, downloaded_set, crawlvars,
                   stop_requested, runs, completed, last>>

\* The process is killed: what is on disk stays, the rest is gone.
Crash ==
    /\ phase # "idle"
    /\ phase' = "idle"
    /\ tasks' = <<>>
    /\ UNCHANGED <<upstream, rest, call, rebuilt,
                   disk, args, force, downloaded_set, crawlvars,
                   stop_requested, runs, completed, last>>

\* Between two runs the catalog starts to answer differently for an id (the
\* service starts to limit the rate, say).
CatalogChanges(i, r) ==
    /\ phase = "idle"
    /\ upstream[i] # r
    /\ upstream' = [upstream EXCEPT ![i] = r]
    /\ UNCHANGED <<rest, call, rebuilt, disk, phase, args, force, tasks, downloaded_set,
                   crawlvars, stop_requested, runs, completed, last>>

\* Between two runs a stored document is truncated by something else.
Damage(i) ==
    /\ phase = "idle"
    /\ files[StoragePath(i)] = "valid"
    /\ files' = [files EXCEPT ![StoragePath(i)] = "invalid"]
    /\ completed' = FALSE
    /\ UNCHANGED <<upstream, rest, call, rebuilt,
                   outdir, logs, present, phase, args, force, tasks,
                   downloaded_set, crawlvars, stop_requested, runs, last>>

\* The stop signal arrives during a run.
StopSignal ==
    /\ phase # "idle"
    /\ ~stop_requested
    /\ stop_requested' = TRUE
    /\ UNCHANGED <<upstream, rest, call, rebuilt,
                   disk, phase, args, force, tasks, downloaded_set,
                   crawlvars, runs, completed, last>>

(* ---------------------------- specification ---------------------------- *)
\* The answers the catalog gives in the runs modelled.
InitAnswers == {"doc", "404", "429"}

\* Nothing has run yet; the output directory is empty or does not exist.
Init ==
    /\ upstream \in [Ids -> InitAnswers]
    /\ rest = "404"
    /\ call = NoCall
    /\ outdir \in BOOLEAN
    /\ files = [p \in Paths |-> "absent"]
    /\ logs = [n \in LogNames |-> <<>>]
    /\ present = {}
    /\ phase = "idle"
    /\ args = NoArgs
    /\ force = FALSE
    /\ tasks = <<>>
    /\ downloaded_set = {}
    /\ highest = 0
    /\ consecutive_404s = 0
    /\ model_ids = <<>>
    /\ stop_requested = FALSE
    /\ runs = 0
    /\ completed = FALSE
    /\ last = NoArgs
    /\ trail = 0
    /\ rebuilt = FALSE

Worker ==
    \E k \in 1..Len(tasks) :
        \/ Dispatch(k)
        \/ FetchReturns(k)
        \/ LogNotFound(k)
        \/ LogError(k)
        \/ OpenFile(k)
        \/ Dump(k)
        \/ LogDownloaded(k)

Pool == Worker \/ FinishRun

\* The command lines that select mode m and set nothing else.
OnlyMode(m) == {a \in ArgSpace : /\ Mode(a) = m
                                 /\ a.retry = (m = "retry")
                                 /\ a.recheck = (m = "recheck")
                                 /\ a.crawl = (m = "crawl")
                                 /\ (m # "range" => a.start = 0 /\ a.end = 0)}

CommandLines == UNION {OnlyMode(m) : m \in {"retry", "range", "recheck", "crawl", "usage"}}

\* The whole program: one mode per command line, run after run.
Next ==
    \/ \E a \in CommandLines : StartRun(a)
    \/ Pool
    \/ CrawlProbe
    \/ CrawlDownload

Spec == Init /\ [][Next]_vars

(* Scenarios: the same program, with the command lines of one mode and the   *)
(* environment's faults named by each.                                       *)

\* Range-mode runs, one after the other.
NextRange == (\E a \in OnlyMode("range") : StartRun(a)) \/ Pool
SpecRange == Init /\ [][NextRange]_vars

\* One range-mode run.
FirstRun(a) == runs = 0 /\ StartRun(a)
NextFirstRange == (\E a \in OnlyMode("range") : FirstRun(a)) \/ Pool
SpecFirstRange == Init /\ [][NextFirstRange]_vars

\* One range-mode run, then one retry-mode run.
SecondRun(a) == runs = 1 /\ StartRun(a)
NextRangeThenRetry ==
    \/ \E a \in OnlyMode("range") : FirstRun(a)
    \/ \E a \in OnlyMode("retry") : SecondRun(a)
    \/ Pool
SpecRangeThenRetry == Init /\ [][NextRangeThenRetry]_vars

\* Range-mode runs that may be killed, against a service that may start to
\* limit the rate for an id from one run to the next.
NextCrashes ==
    \/ NextRange
    \/ Crash
    \/ \E i \in Ids : CatalogChanges(i, "429")
SpecCrashes == Init /\ [][NextCrashes]_vars

\* Range-mode runs in which a write may fail and the process may be killed.
NextFaults == NextRange \/ (\E k \in 1..Len(tasks) : WriteFails(k)) \/ Crash
SpecFaults == Init /\ [][NextFaults]_vars

\* Range-mode runs with stored documents damaged between them.
NextDrift == NextRange \/ (\E i \in Ids : Damage(i))
SpecDrift == Init /\ [][NextDrift]_vars

\* Range-mode runs during which the stop signal may arrive.
NextStop == NextRange \/ StopSignal
SpecStop == Init /\ [][NextStop]_vars

\* One range-mode run with append_log followed step by step.
NextLedger ==
    \/ \E a \in OnlyMode("range") : FirstRun(a)
    \/ \E k \in 1..Len(tasks) :
          \/ Dispatch(k)
          \/ FetchReturns(k)
          \/ OpenFile(k)
          \/ Dump(k)
          \/ LockAcquire(k)
          \/ LogOpen(k)
          \/ LockedAppend(k)
    \/ FinishRun
SpecLedger == Init /\ [][NextLedger]_vars

\* A disk as fault-free runs leave it: the ids of D downloaded and logged.
DiskWith(D) ==
    /\ outdir = TRUE
    /\ files = [p \in Paths |-> IF \E i \in D : p = StoragePath(i) THEN "valid" ELSE "absent"]

Stopped ==
    /\ call = NoCall
    /\ phase = "idle"
    /\ args = NoArgs
    /\ force = FALSE
    /\ tasks = <<>>
    /\ downloaded_set = {}
    /\ highest = 0
    /\ consecutive_404s = 0
    /\ model_ids = <<>>
    /\ stop_requested = FALSE
    /\ runs = 0
    /\ completed = FALSE
    /\ last = NoArgs
    /\ trail = 0
    /\ rebuilt = FALSE

\* One crawl-mode run, up to the hand-over of the discovered ids, after
\* earlier runs downloaded the ids of D.
InitCrawl ==
    \E D \in SUBSET Ids :
        /\ upstream \in {u \in [Ids -> InitAnswers] : \A i \in D : u[i] = "doc"}
        /\ rest = "404"
        /\ DiskWith(D)
        /\ logs = [n \in LogNames |->
                     IF n = DOWNLOADED THEN SortedLines({Pad8(i) : i \in D}) ELSE <<>>]
        /\ present = IF D = {} THEN {} ELSE {DOWNLOADED}
        /\ Stopped

NextCrawl == (\E a \in OnlyMode("crawl") : FirstRun(a)) \/ CrawlProbe \/ CrawlDownload
SpecCrawl == InitCrawl /\ [][NextCrawl]_vars

\* The start-up of one run of any mode, over any disk: each file valid,
\* invalid or absent, downloaded.txt missing, empty, or holding any ids (in
\* step with the files or not).
InitStartUp ==
    \E S \in SUBSET Ids, missing \in BOOLEAN :
        /\ upstream = [i \in Ids |-> "doc"]
        /\ rest = "404"
        /\ files \in [Paths -> {"absent", "valid", "invalid"}]
        /\ outdir \in BOOLEAN
        /\ (~outdir => S = {} /\ missing /\ \A p \in Paths : files[p] = "absent")
        /\ (missing => S = {})
        /\ logs = [n \in LogNames |->
                     IF n = DOWNLOADED THEN SortedLines({Pad8(i) : i \in S}) ELSE <<>>]
        /\ present = IF missing THEN {} ELSE {DOWNLOADED}
        /\ Stopped

NextStartUp == \E a \in CommandLines : FirstRun(a)
SpecStartUp == InitStartUp /\ [][NextStartUp]_vars

\* One call of fetch_civitai_json for any id, over every catalog answer and a
\* timeout of any request.
InitFetch ==
    /\ upstream \in [Ids -> Answers \ {"timeout"}]
    /\ rest = "404"
    /\ outdir = FALSE
    /\ files = [p \in Paths |-> "absent"]
    /\ logs = [n \in LogNames |-> <<>>]
    /\ present = {}
    /\ Stopped

NextFetch == (\E i \in Ids : FetchCall(i)) \/ FetchRequest \/ FetchExhausted
SpecFetch == InitFetch /\ [][NextFetch]_vars

\* One crawl-mode run against a catalog in which no id above MaxId exists:
\* each of them is answered the same way, NotFound or an error.
InitCrawlAny ==
    \E D \in SUBSET Ids :
        /\ upstream \in {u \in [Ids -> InitAnswers] : \A i \in D : u[i] = "doc"}
        /\ rest \in Answers \ {"doc"}
        /\ DiskWith(D)
        /\ logs = [n \in LogNames |->
                     IF n = DOWNLOADED THEN SortedLines({Pad8(i) : i \in D}) ELSE <<>>]
        /\ present = IF D = {} THEN {} ELSE {DOWNLOADED}
        /\ Stopped

SpecCrawlAny == InitCrawlAny /\ [][NextCrawl]_vars

\* Lines an errors.txt may hold: those download_model writes, those tagged as
\* not found by another variant of the tool, a blank line, a damaged line.
ErrLines ==
    UNION {{ErrorLine(i, "429"), ErrorLine(i, "timeout"), ErrorLine(i, "ERR"),
            <<Pad8(i), Hash, <<"4", "0", "4">>, Word("Not"), Word("Found")>>} : i \in Ids}
    \cup {<<>>, <<Word("garbage"), Hash, Word("timeout")>>}

SeqsUpTo(S, n) == UNION {[1..m -> S] : m \in 0..n}

\* The planning of one retry-mode run, over any errors.txt of MaxErrLines lines.
InitRetry ==
    \E D \in SUBSET Ids, E \in SeqsUpTo(ErrLines, MaxErrLines) :
        /\ upstream = [i \in Ids |-> "doc"]
        /\ rest = "404"
        /\ DiskWith(D)
        /\ logs = [n \in LogNames |->
                     IF n = DOWNLOADED THEN SortedLines({Pad8(i) : i \in D})
                     ELSE IF n = ERRORS THEN E ELSE <<>>]
        /\ present = (IF D = {} THEN {} ELSE {DOWNLOADED})
                        \cup (IF E = <<>> THEN {} ELSE {ERRORS})
        /\ Stopped

\* Retry-mode runs, one after the other, over any errors.txt of MaxErrLines
\* lines left by earlier runs and a catalog that answers as it does now.
InitRetryRuns ==
    \E D \in SUBSET Ids, E \in SeqsUpTo(ErrLines, MaxErrLines) :
        /\ upstream \in {u \in [Ids -> InitAnswers] : \A i \in D : u[i] = "doc"}
        /\ rest = "404"
        /\ DiskWith(D)
        /\ logs = [n \in LogNames |->
                     IF n = DOWNLOADED THEN SortedLines({Pad8(i) : i \in D})
                     ELSE IF n = ERRORS THEN E ELSE <<>>]
        /\ present = (IF D = {} THEN {} ELSE {DOWNLOADED})
                        \cup (IF E = <<>> THEN {} ELSE {ERRORS})
        /\ Stopped

NextRetryRuns == (\E a \in OnlyMode("retry") : StartRun(a)) \/ Pool
SpecRetryRuns == InitRetryRuns /\ [][NextRetryRuns]_vars

NextRetry == \E a \in OnlyMode("retry") : FirstRun(a)
SpecRetry == InitRetry /\ [][NextRetry]_vars

(* ------------------------------- claims -------------------------------- *)
TaskIds == {tasks[k].id : k \in DOMAIN tasks}
InRange(i, a) == a.start <= i /\ i <= a.end
Logged(i, name) == <<Pad8(i)>> \in load_log(name)
ValidFile(i) == is_valid_json_file(files, StoragePath(i))

\* C1: after any completed run, an id is in downloaded.txt if and only if a
\* file that parses as JSON is at its StoragePath.
C1_ReconciledAfterRun ==
    (phase = "idle" /\ completed) =>
        \A i \in Ids : Logged(i, DOWNLOADED) <=> ValidFile(i)

\* C2: a range-mode run over the range of the completed range-mode run before
\* it, every id of which is in downloaded.txt or notfound.txt, fetches nothing.
C2_SecondRunFetchesNothing ==
    ( /\ phase = "pool"
      /\ Mode(args) = "range"
      /\ last = args
      /\ \A i \in Ids : InRange(i, args) =>
             Logged(i, DOWNLOADED) \/ Logged(i, NOTFOUND) )
    => \A k \in DOMAIN tasks : tasks[k].pc \in {"pending", "skipped"}

\* C3: a range-mode run never fetches an id that an earlier run appended to
\* notfound.txt.
C3_NotFoundNotRefetched ==
    \A k \in DOMAIN tasks :
        (phase = "pool" /\ Mode(args) = "range" /\ tasks[k].pc = "inflight")
        => ~Logged(tasks[k].id, NOTFOUND)

\* C4: after a completed range-mode run, an id of the range that is in
\* downloaded.txt and for which the catalog has a document has a valid file.
C4_CorruptFileRepaired ==
    \A i \in Ids :
        ( /\ phase = "idle" /\ completed
          /\ Mode(last) = "range" /\ InRange(i, last)
          /\ Fetch(i) = "data"
          /\ Logged(i, DOWNLOADED) )
        => ValidFile(i)

\* What the claim C5 calls a line that parses, its id and a 404-class reason:
\* "<id> # <reason>", the id a decimal number, the reason starting with 404.
LineParses(line) == Len(line) >= 1 /\ IsNumber(line[1])
LineId(line) == ParseInt(line[1])
Reason404(line) ==
    /\ Len(line) >= 3
    /\ line[2] = Hash
    /\ IsNumber(line[3]) /\ ParseInt(line[3]) = 404

\* C5: the candidates of retry mode are exactly the ids of the errors.txt
\* lines that parse and carry a reason that is not 404-class, less the ids in
\* downloaded.txt; other lines add nothing and the run goes on.
C5_RetryCandidates ==
    (phase = "pool" /\ Mode(args) = "retry") =>
        TaskIds = {LineId(l) : l \in {x \in load_log(ERRORS) :
                      /\ LineParses(x)
                      /\ ~Reason404(x)
                      /\ ~Logged(LineId(x), DOWNLOADED)}}

\* C5 at work: a line tagged 404 and a line with another reason, for two ids
\* not downloaded; only the second id is a candidate.
C5_Witness ==
    /\ phase = "pool" /\ Mode(args) = "retry"
    /\ \E x, y \in load_log(ERRORS) :
          /\ LineParses(x) /\ Reason404(x)
          /\ LineParses(y) /\ ~Reason404(y)
          /\ LineId(x) # LineId(y)
          /\ ~Logged(LineId(x), DOWNLOADED)
          /\ TaskIds = {LineId(y)}

\* C6: the probe loop never probes after limit NotFound answers in a row (its
\* last probe is the limit-th of them), and no discovered id lies above the
\* last probed id that was not answered NotFound.
C6_CrawlStopsAtRun ==
    /\ trail <= limit
    /\ (trail = limit => ~LoopContinues)
    /\ \A k \in DOMAIN model_ids : model_ids[k] <= highest - trail
    /\ (Mode(args) = "crawl" /\ phase = "pool") =>
           /\ TaskIds = {model_ids[k] : k \in DOMAIN model_ids}
           /\ Lines(logs[CRAWLED]) = {<<Str(model_ids[k])>> : k \in DOMAIN model_ids}

\* C6 at work: the crawl found documents, then met limit NotFound answers in a
\* row and handed its list over.
C6_Witness ==
    /\ Mode(args) = "crawl" /\ phase = "pool"
    /\ model_ids # <<>>
    /\ trail = limit
    /\ highest = model_ids[Len(model_ids)] + limit

\* C7: after the first range-mode run, on an empty output directory, over a
\* range whose fetches all end in a document or in NotFound: the valid files
\* are those of the ids with a document, downloaded.txt holds exactly those
\* ids, notfound.txt exactly the others, and errors.txt is empty.
C7_RangeOutcomeRouting ==
    ( /\ phase = "idle" /\ completed /\ runs = 1
      /\ Mode(last) = "range"
      /\ \A i \in Ids : InRange(i, last) => Fetch(i) \in {"data", "404"} )
    => /\ \A i \in Ids : ValidFile(i) <=> (InRange(i, last) /\ Fetch(i) = "data")
       /\ load_log(DOWNLOADED) = {<<Pad8(i)>> : i \in {j \in Ids : InRange(j, last) /\ Fetch(j) = "data"}}
       /\ load_log(NOTFOUND) = {<<Pad8(i)>> : i \in {j \in Ids : InRange(j, last) /\ Fetch(j) = "404"}}
       /\ logs[ERRORS] = <<>> /\ ERRORS \notin present

\* C7 at work: the range [1, 3] with documents for 1 and 3 and 404 for 2.
C7_Witness ==
    /\ phase = "idle" /\ completed /\ runs = 1
    /\ last.start = 1 /\ last.end = 3
    /\ upstream[1] = "doc" /\ upstream[2] = "404" /\ upstream[3] = "doc"
    /\ files[<<Pad8(0), <<"0", "0", "0", "0", "0", "0", "0", "1">>>>] = "valid"
    /\ files[<<Pad8(0), <<"0", "0", "0", "0", "0", "0", "0", "3">>>>] = "valid"
    /\ load_log(NOTFOUND) = {<< <<"0", "0", "0", "0", "0", "0", "0", "2">> >>}

\* C8: a task that has ended has made exactly one ledger append.
C8_OneAppendPerTask ==
    \A k \in DOMAIN tasks : tasks[k].pc \in Terminal => tasks[k].appends = 1

\* C9: once a task has begun its write, the file at its path is never one
\* that does not parse.
C9_NoPartialFile ==
    \A k \in DOMAIN tasks :
        tasks[k].pc \in {"open", "raised"} => files[StoragePath(tasks[k].id)] # "invalid"

\* C10: once the stop signal has been raised, no queued task is started.
C10_NoDispatchAfterStop ==
    [][stop_requested =>
         \A k \in DOMAIN tasks :
             tasks[k].pc = "pending" => (k \in DOMAIN tasks' /\ tasks'[k].pc = "pending")]_vars

\* the tasks whose append_log call has returned, and the line each wrote
Appended(n) == {k \in DOMAIN tasks :
                  tasks[k].pc \in {"logged404", "loggederr", "persisted"} /\ LedgerOf(k) = n}
LineOf(k) == IF LedgerOf(k) = ERRORS THEN ErrorLine(tasks[k].id, tasks[k].result)
             ELSE <<Pad8(tasks[k].id)>>

\* C11: at most one thread has a given log file open for append; no worker
\* exists when a run (and with it the rebuild of downloaded.txt) starts; and
\* during the run each log file holds exactly the lines of the append_log
\* calls that have returned, one whole line per call.
C11_AppendsSerialized ==
    /\ \A n \in LogNames :
          Cardinality({k \in DOMAIN tasks : tasks[k].io = "open" /\ LedgerOf(k) = n}) <= 1
    /\ (phase = "idle" => tasks = <<>>)
    /\ phase = "pool" =>
          \A n \in LogNames :
              /\ Len(logs[n]) = Cardinality(Appended(n))
              /\ Lines(logs[n]) = {LineOf(k) : k \in Appended(n)}

\* C11 at work: a worker has errors.txt open while another, with a line for
\* the same file, waits for the lock.
C11_Witness ==
    \E j, k \in DOMAIN tasks :
        /\ j # k
        /\ tasks[j].io = "open" /\ LedgerOf(j) = ERRORS
        /\ AtAppend(k) /\ tasks[k].io = "none" /\ LedgerOf(k) = ERRORS

\* the ids of the files named by 8 digits that parse
ValidOnDisk == {i \in Ids : files[StoragePath(i)] = "valid"}

\* C12: a run that gets past start-up with downloaded.txt missing or empty has
\* rewritten it to exactly the ids of the 8-digit-named files that parse, one
\* line each, and plans from the rewritten log with nothing dispatched yet; a
\* run that starts with a non-empty downloaded.txt leaves it as it is.
C12_StartupRebuild ==
    [][(runs' = runs + 1 /\ phase' # "idle") =>
          IF DOWNLOADED \notin present \/ logs[DOWNLOADED] = <<>>
          THEN /\ DOWNLOADED \in present'
               /\ Lines(logs'[DOWNLOADED]) = {<<Pad8(i)>> : i \in ValidOnDisk}
               /\ Len(logs'[DOWNLOADED]) = Cardinality(ValidOnDisk)
               /\ \A k \in DOMAIN tasks' :
                     /\ tasks'[k].pc = "pending"
                     /\ downloaded_set' = Lines(logs'[DOWNLOADED])
                     /\ Mode(args') = "range" => tasks'[k].id \notin ValidOnDisk
          ELSE /\ logs'[DOWNLOADED] = logs[DOWNLOADED]
               /\ DOWNLOADED \in present'
      ]_vars

\* C12 at work: the run rewrote downloaded.txt to the two ids whose files
\* parse, leaving out a file that does not parse and a file with another name,
\* and planned the remaining id of the range.
C12_Witness ==
    /\ rebuilt /\ phase = "pool" /\ Mode(args) = "range"
    /\ files[StoragePath(2)] = "invalid"
    /\ files[StrayPath] = "valid"
    /\ logs[DOWNLOADED] = << <<Pad8(1)>>, <<Pad8(3)>> >>
    /\ TaskIds = {2}

\* C13: when the probe loop has exited, the limit most recently probed ids
\* were all answered NotFound.
C13_ExitAfterNotFoundRun ==
    (Mode(args) = "crawl" /\ phase = "crawl" /\ ~LoopContinues) => trail = limit

\* the delays of the first n timeouts
Backoffs(n) == [k \in 1..n |-> IF k = 1 THEN 2 ELSE IF k = 2 THEN 4 ELSE 8]
Timeouts(answers) == {k \in DOMAIN answers : answers[k] = "timeout"}

\* C14: a call makes at most 3 requests, each but the first after a timeout;
\* it has slept 2, 4, 8 seconds after its first, second, third timeout; it
\* returns "timeout" exactly when 3 requests timed out; and any other answer
\* is the last request and ends the call with that answer's outcome.
C14_FetchRetryBound ==
    LET n == Len(call.answers) IN
    /\ n <= 3
    /\ \A k \in 1..(n - 1) : call.answers[k] = "timeout"
    /\ call.slept = Backoffs(Cardinality(Timeouts(call.answers)))
    /\ \A k \in 1..(Len(call.slept) - 1) : call.slept[k] < call.slept[k + 1]
    /\ (call.result = "timeout") =>
          (n = 3 /\ Cardinality(Timeouts(call.answers)) = 3)
    /\ (Cardinality(Timeouts(call.answers)) = 3) =>
          /\ call.result \in {"none", "timeout"}
          /\ ~ENABLED FetchRequest
          /\ call.result = "none" => ENABLED FetchExhausted
    /\ (n >= 1 /\ call.answers[n] # "timeout") =>
          /\ call.result = CASE call.answers[n] = "doc" -> "data"
                             [] call.answers[n] \in {"404", "nomodel"} -> "404"
                             [] call.answers[n] = "429" -> "429"
                             [] OTHER -> "ERR"
          /\ ~ENABLED FetchRequest
    /\ (call.id # 0 /\ call.result = "none") =>
          (Cardinality(Timeouts(call.answers)) = n /\ ENABLED NextFetch)

\* C14 at work: two timeouts, slept 2 and 4 seconds, then the third request
\* was answered 429 and the call returned it.
C14_Witness ==
    /\ call.answers = <<"timeout", "timeout", "429">>
    /\ call.slept = <<2, 4>>
    /\ call.result = "429"

Line429(i) == <<Pad8(i), Hash, <<"4", "2", "9">>, Word("Too"), Word("Many"), Word("Requests")>>
CountLines(log, line) == Cardinality({k \in DOMAIN log : log[k] = line})
SeqElems(q) == {q[k] : k \in DOMAIN q}

\* C15: a task answered 429 goes from its one fetch to its append and nowhere
\* else; in the range-mode run it leaves no file, exactly one line
\* "<id8> # 429 Too Many Requests" in errors.txt and nothing in downloaded.txt
\* or notfound.txt; and the id is a candidate of the retry-mode run that
\* follows, as of any retry-mode run planned while the line is there and the
\* id is not in downloaded.txt.
C15_RateLimited ==
    /\ \A k \in DOMAIN tasks :
          tasks[k].result = "429" =>
              /\ tasks[k].pc \in {"fetched", "loggederr"}
              /\ tasks[k].appends = (IF tasks[k].pc = "loggederr" THEN 1 ELSE 0)
              /\ (runs = 1 /\ tasks[k].pc = "loggederr") =>
                     /\ files[StoragePath(tasks[k].id)] = "absent"
                     /\ CountLines(logs[ERRORS], Line429(tasks[k].id)) = 1
                     /\ \A l \in Lines(logs[ERRORS]) :
                            l[1] = Pad8(tasks[k].id) => l = Line429(tasks[k].id)
                     /\ ~Logged(tasks[k].id, DOWNLOADED)
                     /\ ~Logged(tasks[k].id, NOTFOUND)
    /\ \A i \in Ids :
          (Line429(i) \in load_log(ERRORS) /\ ~Logged(i, DOWNLOADED))
              => i \in SeqElems(to_retry(logs, present))
    /\ (runs = 2 /\ phase = "pool" /\ Mode(args) = "retry") =>
          \A i \in Ids : (InRange(i, last) /\ Fetch(i) = "429") => i \in TaskIds

\* C15 at work: the range-mode run was answered 429 for id 2 and wrote the
\* line; the retry-mode run after it has planned id 2.
C15_Witness ==
    /\ runs = 2 /\ phase = "pool" /\ Mode(args) = "retry"
    /\ upstream[2] = "429"
    /\ logs[ERRORS] = <<Line429(2)>>
    /\ files[StoragePath(2)] = "absent"
    /\ TaskIds = {2}
    /\ \A k \in DOMAIN tasks : tasks[k].pc = "pending"

\* C16: no task is past its append to downloaded.txt without a valid file at
\* its path; and after a completed range-mode run, every id of its range that
\* has a valid file is in downloaded.txt.
C16_WriteBeforeLogSelfHealing ==
    /\ \A k \in DOMAIN tasks :
          tasks[k].pc = "persisted" => ValidFile(tasks[k].id)
    /\ (phase = "idle" /\ completed /\ Mode(last) = "range") =>
          \A i \in Ids :
              (InRange(i, last) /\ ValidFile(i)) => Logged(i, DOWNLOADED)

\* C17: in a retry-mode run no two tasks have the same id.
C17_RetryDispatchesOnce ==
    (phase = "pool" /\ Mode(args) = "retry") =>
        \A j, k \in DOMAIN tasks : tasks[j].id = tasks[k].id => j = k

\* the id the crawl started from, and the highest id that can exist
CrawlStart == crawl_start(load_log(DOWNLOADED))
LastPossible == IF CrawlStart > MaxId THEN CrawlStart ELSE MaxId

\* C18: the probe loop has ended once it has probed limit ids above every id
\* that exists.
C18_CrawlLoopEnds ==
    (phase = "crawl" /\ highest >= LastPossible + limit) => ~LoopContinues

\* C19: a run started on an output directory that does not exist has created
\* it and has gone on to its dispatch phase.
C19_FirstRunCreatesDirectory ==
    (runs = 1 /\ Mode(args) = "range") => (outdir /\ (phase = "pool" \/ completed))

\* C20: a retry-mode run submits no task for an id that is in notfound.txt
\* when it starts (the file is empty before the first of the retry-mode runs,
\* so every entry is of a re-fetch by an earlier one).
C20_RetrySkipsNotFound ==
    [][(runs' = runs + 1 /\ Mode(args') = "retry" /\ phase' = "pool") =>
          \A k \in DOMAIN tasks' : ~Logged(tasks'[k].id, NOTFOUND)]_vars

=============================================================================
